---- MODULE Spec2Model ----
(***************************************************************************)
(* Model of the user-account core of django-ddd-boilerplate: the value     *)
(* objects and the User entity, the Django repository adapter, the user    *)
(* domain service, the in-memory event publisher wired by the service      *)
(* container, and the Create/Update/Get/ChangePassword/Authenticate use    *)
(* cases.  Python strings are sequences of one-character strings, so that  *)
(* lower(), strip(), re.match and the `in` substring test are computed.    *)
(* Spec drives the use cases of one container; BusSpec a bare publisher;   *)
(* ContainerSpec the threads inside get_container(); RepoSpec the          *)
(* repository alone; ServiceSpec the uniqueness predicates over a given    *)
(* table; ApiSpec the exception handler of the API.                        *)
(***************************************************************************)
EXTENDS Integers, Sequences, FiniteSets, TLC

(***************************************************************************)
(* Bounds of the model.                                                    *)
(***************************************************************************)
MaxUsers == 2
MaxEvents == 3
\* subscribe and publish calls made on a bare publisher
MaxSubscriptions == 3
MaxPublishes == 2
\* threads calling get_container and the calls each of them makes
MaxThreads == 2
MaxGetCalls == 2
\* handler calls after which the history is no longer cleared
MaxCalls == 4

(***************************************************************************)
(* Python values.                                                          *)
(***************************************************************************)
\* Python's None where a str is expected: a one-element sequence that is no
\* sequence of characters, so it differs from every string, "" included.
None == <<"<None>">>
\* Python's None where an id is expected (DomainEntity.id defaults to None).
NoneId == -1
\* bool(x) of an Optional[int]: None and 0 are falsy.
Truthy(id) == id # NoneId /\ id # 0
\* bool(s) of an Optional[str]: None and "" are falsy.
TruthyStr(s) == s # None /\ s # <<>>
\* `a or b` on Optional[str].
StrOr(a, b) == IF TruthyStr(a) THEN a ELSE b

LowerLetters ==
    {"a", "b", "c", "d", "e", "f", "g", "h", "i", "j", "k", "l", "m",
     "n", "o", "p", "q", "r", "s", "t", "u", "v", "w", "x", "y", "z"}
UpperToLower ==
    [A |-> "a", B |-> "b", C |-> "c", D |-> "d", E |-> "e", F |-> "f",
     G |-> "g", H |-> "h", I |-> "i", J |-> "j", K |-> "k", L |-> "l",
     M |-> "m", N |-> "n", O |-> "o", P |-> "p", Q |-> "q", R |-> "r",
     S |-> "s", T |-> "t", U |-> "u", V |-> "v", W |-> "w", X |-> "x",
     Y |-> "y", Z |-> "z"]
UpperLetters == DOMAIN UpperToLower
Digits == {"0", "1", "2", "3", "4", "5", "6", "7", "8", "9"}
Whitespace == {" ", "\t", "\n", "\r", "\f"}

\* str.lower()
str_lower(s) ==
    [i \in 1..Len(s) |-> IF s[i] \in UpperLetters THEN UpperToLower[s[i]] ELSE s[i]]

RECURSIVE str_lstrip(_)
str_lstrip(s) ==
    IF Len(s) > 0 /\ s[1] \in Whitespace THEN str_lstrip(Tail(s)) ELSE s

RECURSIVE str_rstrip(_)
str_rstrip(s) ==
    IF Len(s) > 0 /\ s[Len(s)] \in Whitespace
    THEN str_rstrip(SubSeq(s, 1, Len(s) - 1))
    ELSE s

\* str.strip()
str_strip(s) == str_rstrip(str_lstrip(s))

\* `sub in s` on strings
str_contains(sub, s) ==
    \E i \in 0..(Len(s) - Len(sub)) : SubSeq(s, i + 1, i + Len(sub)) = sub

AllIn(s, lo, hi, class) == \A k \in lo..hi : s[k] \in class

\* re.match of an anchored pattern "^...$": `$` matches at the end of the
\* string and also just before a newline that ends the string, so the
\* pattern may cover s or s without its final newline.
DollarEnds(s) ==
    {s} \cup (IF Len(s) > 0 /\ s[Len(s)] = "\n"
             THEN {SubSeq(s, 1, Len(s) - 1)} ELSE {})

(***************************************************************************)
(* domain/user/value_objects.py                                            *)
(***************************************************************************)
WordChars == LowerLetters \cup UpperLetters \cup Digits \cup {"_"}
EmailLocalChars == LowerLetters \cup UpperLetters \cup Digits \cup {".", "_", "%", "+", "-"}
EmailDomainChars == LowerLetters \cup UpperLetters \cup Digits \cup {".", "-"}
EmailTldMin == 2

\* [a-zA-Z0-9_]+( [a-zA-Z0-9_]+)*  against the whole of s
UsernameFull(s) ==
    /\ Len(s) > 0
    /\ AllIn(s, 1, Len(s), WordChars \cup {" "})
    /\ s[1] # " " /\ s[Len(s)] # " "
    /\ \A k \in 1..(Len(s) - 1) : ~(s[k] = " " /\ s[k + 1] = " ")

\* re.match(r"^[a-zA-Z0-9_]+( [a-zA-Z0-9_]+)*$", s)
username_pattern(s) == \E t \in DollarEnds(s) : UsernameFull(t)

\* [a-zA-Z0-9._%+-]+@[a-zA-Z0-9.-]+\.[a-zA-Z]{2,}  against the whole of s
EmailFull(s) ==
    \E i \in 2..Len(s) : \E j \in (i + 2)..Len(s) :
        /\ s[i] = "@" /\ s[j] = "."
        /\ AllIn(s, 1, i - 1, EmailLocalChars)
        /\ AllIn(s, i + 1, j - 1, EmailDomainChars)
        /\ Len(s) - j >= EmailTldMin
        /\ AllIn(s, j + 1, Len(s), LowerLetters \cup UpperLetters)

\* re.match(r"^[a-zA-Z0-9._%+-]+@[a-zA-Z0-9.-]+\.[a-zA-Z]{2,}$", s)
email_pattern(s) == \E t \in DollarEnds(s) : EmailFull(t)

M_UsernameEmpty ==
    <<"U", "s", "e", "r", "n", "a", "m", "e", " ", "c", "a", "n", "n", "o", "t",
      " ", "b", "e", " ", "e", "m", "p", "t", "y">>
M_UsernameFormat ==
    <<"I", "n", "v", "a", "l", "i", "d", " ", "u", "s", "e", "r", "n", "a", "m",
      "e", " ", "f", "o", "r", "m", "a", "t">>
M_EmailEmpty ==
    <<"E", "m", "a", "i", "l", " ", "c", "a", "n", "n", "o", "t", " ", "b", "e",
      " ", "e", "m", "p", "t", "y">>
M_EmailFormat ==
    <<"I", "n", "v", "a", "l", "i", "d", " ", "e", "m", "a", "i", "l", " ", "f",
      "o", "r", "m", "a", "t">>

\* A constructor's result: the value it built, or the ValueError it raised.
Built(v) == [ok |-> TRUE, value |-> v, error |-> <<>>]
Raised(msg) == [ok |-> FALSE, value |-> <<>>, error |-> msg]

\* Username(value): Username.__post_init__
Username(value) ==
    IF ~TruthyStr(value) THEN Raised(M_UsernameEmpty)
    ELSE IF ~username_pattern(value) THEN Raised(M_UsernameFormat)
    ELSE Built(value)

\* Email(value): Email.__post_init__
Email(value) ==
    IF ~TruthyStr(value) THEN Raised(M_EmailEmpty)
    ELSE IF ~email_pattern(value) THEN Raised(M_EmailFormat)
    ELSE Built(str_strip(str_lower(value)))

(***************************************************************************)
(* domain/user/entities.py                                                 *)
(***************************************************************************)
M_UsernameRequired ==
    <<"U", "s", "e", "r", "n", "a", "m", "e", " ", "i", "s", " ", "r", "e", "q",
      "u", "i", "r", "e", "d">>
M_EmailRequired ==
    <<"E", "m", "a", "i", "l", " ", "i", "s", " ", "r", "e", "q", "u", "i", "r",
      "e", "d">>

\* The attributes a User instance has: the dataclass fields of DomainEntity
\* and User, and the methods User defines.
UserAttrs ==
    {"id", "created_at", "updated_at",
     "username", "email", "first_name", "last_name", "is_active", "is_staff",
     "is_admin", "is_superuser", "password",
     "activate", "deactivate", "promote_to_admin", "demote_from_admin"}

\* Mutant: the entity lower-cases the email but does not strip it.
entity_email_unstripped(email) == str_lower(email)

\* self.email = self.email.lower().strip()
entity_email(email) == str_strip(str_lower(email))

\* Mutant: the entity's username pattern has no group for further tokens.
User_one_token(id, username, email, first_name, last_name, is_active, flags, password) ==
    IF ~TruthyStr(username) THEN Raised(M_UsernameRequired)
    ELSE IF ~TruthyStr(email) THEN Raised(M_EmailRequired)
    ELSE IF ~username_pattern(username) \/ " " \in {username[i] : i \in 1..Len(username)}
         THEN Raised(M_UsernameFormat)
    ELSE Built([id |-> id, username |-> username, email |-> entity_email(email),
                first_name |-> first_name, last_name |-> last_name,
                is_active |-> is_active, is_staff |-> flags.is_staff,
                is_admin |-> flags.is_admin, is_superuser |-> flags.is_superuser,
                password |-> password])

\* User(...): the dataclass constructor followed by User.__post_init__.
\* is_staff, is_admin and is_superuser are never passed by a use case and
\* are copied by the repository, so they travel as one record of flags.
User(id, username, email, first_name, last_name, is_active, flags, password) ==
    IF ~TruthyStr(username) THEN Raised(M_UsernameRequired)
    ELSE IF ~TruthyStr(email) THEN Raised(M_EmailRequired)
    ELSE IF ~username_pattern(username) THEN Raised(M_UsernameFormat)
    ELSE Built([id |-> id, username |-> username, email |-> entity_email(email),
                first_name |-> first_name, last_name |-> last_name,
                is_active |-> is_active, is_staff |-> flags.is_staff,
                is_admin |-> flags.is_admin, is_superuser |-> flags.is_superuser,
                password |-> password])

DefaultFlags == [is_staff |-> FALSE, is_admin |-> FALSE, is_superuser |-> FALSE]
FlagsOf(r) ==
    [is_staff |-> r.is_staff, is_admin |-> r.is_admin, is_superuser |-> r.is_superuser]

(***************************************************************************)
(* The credential collaborator (django.contrib.auth.hashers) and the       *)
(* persisted model src.users.models.User.                                  *)
(***************************************************************************)
UnusablePassword == <<"!">>
\* set_password(raw): None gives an unusable credential.
make_password(raw) ==
    IF raw = None THEN UnusablePassword ELSE <<"hash$">> \o raw
\* check_password(raw, stored credential)
check_password(raw, encoded) ==
    raw # None /\ encoded # UnusablePassword /\ encoded = make_password(raw)

\* The attributes of the persisted model that the adapter reads and writes.
DjangoUserAttrs ==
    {"id", "username", "email", "first_name", "last_name", "is_active",
     "is_staff", "is_admin", "is_superuser", "password", "date_joined"}

\* full_clean() and save() of the persisted model: the storage enforces the
\* unique constraints on username and email.
storage_accepts(db, id, row) ==
    \A other \in DOMAIN db \ {id} :
        db[other].username # row.username /\ db[other].email # row.email

(***************************************************************************)
(* infrastructure/persistence/user_repository.py                           *)
(***************************************************************************)
\* What a repository call gives back: an entity, None, or an exception.
Found(u) == [kind |-> "user", user |-> u, error |-> ""]
Absent == [kind |-> "none", user |-> <<>>, error |-> ""]
Failed(e) == [kind |-> "error", user |-> <<>>, error |-> e]

\* DjangoUserRepository._to_domain
to_domain(id, row) ==
    LET u == User(id, row.username, row.email, row.first_name, row.last_name,
                  row.is_active, FlagsOf(row), None)
    IN IF u.ok THEN Found(u.value) ELSE Failed("ValueError")

\* DjangoUser.objects.get(**lookup) followed by _to_domain; ids are the rows
\* the lookup matches.
objects_get(db, ids) ==
    IF ids = {} THEN Absent
       ELSE IF Cardinality(ids) > 1 THEN Failed("MultipleObjectsReturned")
       ELSE LET id == CHOOSE i \in ids : TRUE IN to_domain(id, db[id])

\* Mutant: get_by_id lets DoesNotExist through instead of returning None.
get_by_id_uncaught(db, entity_id) ==
    IF entity_id \in DOMAIN db
    THEN to_domain(entity_id, db[entity_id])
    ELSE Failed("DoesNotExist")

\* DjangoUserRepository.get_by_id
get_by_id(db, entity_id) ==
    IF entity_id \in DOMAIN db THEN to_domain(entity_id, db[entity_id]) ELSE Absent

\* DjangoUserRepository.get_by_username
get_by_username(db, username) ==
    objects_get(db, {id \in DOMAIN db : db[id].username = username})

\* DjangoUserRepository.get_by_email
get_by_email(db, email) ==
    objects_get(db, {id \in DOMAIN db : db[id].email = str_lower(email)})

\* DjangoUserRepository.exists_by_email
exists_by_email(db, email) ==
    \E id \in DOMAIN db : db[id].email = str_lower(email)

\* The outcome of DjangoUserRepository.save: the table afterwards and the
\* entity returned, or the exception raised with the table untouched.
Saved(db, u) == [ok |-> TRUE, db |-> db, user |-> u, error |-> ""]
SaveFailed(db, e) == [ok |-> FALSE, db |-> db, user |-> <<>>, error |-> e]

\* Mutant: save writes the row without full_clean, so no unique constraint
\* is checked.
save_unchecked(db, entity) ==
    LET has_id == Truthy(entity.id)
        id == IF has_id THEN entity.id ELSE Cardinality(DOMAIN db) + 1
        kept == IF has_id /\ entity.id \in DOMAIN db
                THEN db[entity.id].password ELSE <<>>
        row == [username |-> entity.username, email |-> entity.email,
                first_name |-> StrOr(entity.first_name, <<>>),
                last_name |-> StrOr(entity.last_name, <<>>),
                is_active |-> entity.is_active, is_staff |-> entity.is_staff,
                is_admin |-> entity.is_admin, is_superuser |-> entity.is_superuser,
                password |-> IF "password" \in UserAttrs
                             THEN make_password(entity.password) ELSE kept]
        stored == to_domain(id, row)
    IN IF has_id /\ entity.id \notin DOMAIN db THEN SaveFailed(db, "DoesNotExist")
       ELSE IF "phone_number" \in DjangoUserAttrs /\ "phone_number" \notin UserAttrs
            THEN SaveFailed(db, "AttributeError")
       ELSE IF stored.kind # "user" THEN SaveFailed(db, stored.error)
       ELSE Saved((id :> row) @@ db, stored.user)

\* DjangoUserRepository._to_django and save
save(db, entity) ==
    LET has_id == Truthy(entity.id)
        id == IF has_id THEN entity.id ELSE Cardinality(DOMAIN db) + 1
        kept == IF has_id /\ entity.id \in DOMAIN db
                THEN db[entity.id].password ELSE <<>>
        row == [username |-> entity.username, email |-> entity.email,
                first_name |-> StrOr(entity.first_name, <<>>),
                last_name |-> StrOr(entity.last_name, <<>>),
                is_active |-> entity.is_active, is_staff |-> entity.is_staff,
                is_admin |-> entity.is_admin, is_superuser |-> entity.is_superuser,
                password |-> IF "password" \in UserAttrs
                             THEN make_password(entity.password) ELSE kept]
        stored == to_domain(id, row)
    IN IF has_id /\ entity.id \notin DOMAIN db THEN SaveFailed(db, "DoesNotExist")
       ELSE IF "phone_number" \in DjangoUserAttrs /\ "phone_number" \notin UserAttrs
            THEN SaveFailed(db, "AttributeError")
       ELSE IF ~storage_accepts(db, id, row) THEN SaveFailed(db, "DjangoValidationError")
       ELSE IF stored.kind # "user" THEN SaveFailed(db, stored.error)
       ELSE Saved((id :> row) @@ db, stored.user)

(***************************************************************************)
(* domain/user/services.py                                                 *)
(***************************************************************************)
M_InvalidUsername ==
    <<"I", "n", "v", "a", "l", "i", "d", " ", "u", "s", "e", "r", "n", "a", "m",
      "e", ":", " ">>
M_InvalidEmail ==
    <<"I", "n", "v", "a", "l", "i", "d", " ", "e", "m", "a", "i", "l", ":", " ">>
M_UsernameQuote == <<"U", "s", "e", "r", "n", "a", "m", "e", " ", "'">>
M_EmailQuote == <<"E", "m", "a", "i", "l", " ", "'">>
M_IsAlreadyTaken ==
    <<"'", " ", "i", "s", " ", "a", "l", "r", "e", "a", "d", "y", " ", "t", "a",
      "k", "e", "n">>

\* The result of a lookup used as a uniqueness answer: a lookup that raises
\* makes the predicate raise too.
unique_of(existing, exclude_user_id) ==
    IF existing.kind = "error" THEN [raised |-> TRUE, unique |-> FALSE, error |-> existing.error]
    ELSE [raised |-> FALSE, error |-> "",
          unique |-> \/ existing.kind = "none"
                     \/ Truthy(exclude_user_id) /\ existing.user.id = exclude_user_id]

\* UserDomainService.is_email_unique
is_email_unique(db, email, exclude_user_id) ==
    unique_of(get_by_email(db, email), exclude_user_id)

\* UserDomainService.is_username_unique
is_username_unique(db, username, exclude_user_id) ==
    unique_of(get_by_username(db, username), exclude_user_id)

\* What validate_user_creation does: returns, raises BusinessRuleViolationError
\* with a message, or lets another exception through.
Valid == [kind |-> "ok", message |-> <<>>]
Violation(msg) == [kind |-> "BusinessRuleViolationError", message |-> msg]
Other(e) == [kind |-> e, message |-> <<>>]

\* UserDomainService.validate_user_creation
validate_user_creation(db, username, email) ==
    LET un == Username(username)
        em == Email(email)
        uu == is_username_unique(db, username, NoneId)
        eu == is_email_unique(db, email, NoneId)
    IN IF ~un.ok THEN Violation(M_InvalidUsername \o un.error)
       ELSE IF ~em.ok THEN Violation(M_InvalidEmail \o em.error)
       ELSE IF uu.raised THEN Other(uu.error)
       ELSE IF ~uu.unique THEN Violation(M_UsernameQuote \o username \o M_IsAlreadyTaken)
       ELSE IF eu.raised THEN Other(eu.error)
       ELSE IF ~eu.unique THEN Violation(M_EmailQuote \o email \o M_IsAlreadyTaken)
       ELSE Valid

(***************************************************************************)
(* domain/authentication/services.py                                       *)
(***************************************************************************)
\* Mutant: every user may authenticate, active or not.
can_user_authenticate_anyone(user) == TRUE

\* AuthenticationDomainService.can_user_authenticate
can_user_authenticate(user) == user.is_active

(***************************************************************************)
(* application/shared/dtos.py                                              *)
(***************************************************************************)
\* The attributes a UserUpdateDTO instance has.
UserUpdateDTOAttrs == {"first_name", "last_name", "email"}

\* _to_dto / _user_to_dto of the use cases
to_dto(user) ==
    [id |-> user.id, username |-> user.username, email |-> user.email,
     first_name |-> user.first_name, last_name |-> user.last_name,
     is_active |-> user.is_active, is_staff |-> user.is_staff,
     is_admin |-> user.is_admin, is_superuser |-> user.is_superuser]

\* No DTO: the call raised, returned None, or returns nothing.
NoDTO ==
    [id |-> NoneId, username |-> <<>>, email |-> <<>>, first_name |-> None,
     last_name |-> None, is_active |-> FALSE, is_staff |-> FALSE,
     is_admin |-> FALSE, is_superuser |-> FALSE]

(***************************************************************************)
(* domain/user/events.py and infrastructure/events                         *)
(***************************************************************************)
\* Mutant: the event carries a different email than the one given.
UserCreatedEvent_other_email(aggregate_id, username, email) ==
    [type |-> "UserCreatedEvent", aggregate_id |-> aggregate_id,
     username |-> username, email |-> <<"?">> \o email, user_id |-> NoneId,
     updated_fields |-> <<>>]
UserCreatedEvent(aggregate_id, username, email) ==
    [type |-> "UserCreatedEvent", aggregate_id |-> aggregate_id,
     username |-> username, email |-> email, user_id |-> NoneId,
     updated_fields |-> <<>>]
UserUpdatedEvent(aggregate_id, user_id, updated_fields) ==
    [type |-> "UserUpdatedEvent", aggregate_id |-> aggregate_id,
     username |-> <<>>, email |-> <<>>, user_id |-> user_id,
     updated_fields |-> updated_fields]
PasswordChangedEvent(aggregate_id, user_id) ==
    [type |-> "PasswordChangedEvent", aggregate_id |-> aggregate_id,
     username |-> <<>>, email |-> <<>>, user_id |-> user_id,
     updated_fields |-> <<>>]

EventTypes == {"UserCreatedEvent", "UserUpdatedEvent", "PasswordChangedEvent"}

\* subscribe(handler) without an event type: event_type is None.
NoEventType == "None"

\* InMemoryEventPublisher.__init__: no subscriber of either kind.
EmptyBus == [by_type |-> [t \in {} |-> <<>>], all |-> <<>>]

\* InMemoryEventPublisher.subscribe
subscribe(bus, handler, event_type) ==
    IF event_type # NoEventType
    THEN [bus EXCEPT !.by_type =
             (event_type :> ((IF event_type \in DOMAIN @
                              THEN @[event_type] ELSE <<>>) \o <<handler>>)) @@ @]
    ELSE [bus EXCEPT !.all = Append(@, handler)]

\* The bus after a sequence of subscribe(handler, event_type) calls.
RECURSIVE subscribe_each(_, _)
subscribe_each(bus, regs) ==
    IF regs = <<>> THEN bus
    ELSE subscribe_each(subscribe(bus, Head(regs)[1], Head(regs)[2]), Tail(regs))

\* Mutant: handle_user_created is subscribed a second time, for every event.
ContainerRegistrations_twice ==
    <<<<"handle_user_created", "UserCreatedEvent">>,
      <<"handle_user_updated", "UserUpdatedEvent">>,
      <<"handle_password_changed", "PasswordChangedEvent">>,
      <<"handle_user_created", NoEventType>>>>

\* ServiceContainer.__init__: the three subscribe calls made on the one bus.
ContainerRegistrations ==
    <<<<"handle_user_created", "UserCreatedEvent">>,
      <<"handle_user_updated", "UserUpdatedEvent">>,
      <<"handle_password_changed", "PasswordChangedEvent">>>>

\* The bus of a constructed ServiceContainer.
ContainerBus == subscribe_each(EmptyBus, ContainerRegistrations)
ContainerSubscribersByType == ContainerBus.by_type
ContainerAllSubscribers == ContainerBus.all

\* Mutant: the type-agnostic handlers are notified before the typed ones.
notified_all_first(by_type, all, event) ==
    all \o (IF event.type \in DOMAIN by_type THEN by_type[event.type] ELSE <<>>)

\* InMemoryEventPublisher.publish: the handlers it goes through, in order.
notified(by_type, all, event) ==
    (IF event.type \in DOMAIN by_type THEN by_type[event.type] ELSE <<>>) \o all

\* The callables subscribed in the model: the container's three handlers,
\* which print and return; failing_handler, a function that raises an
\* Exception; FailingCallable, an object with __call__ that raises an
\* Exception (an instance has no __name__ attribute).
HandlerRaises(handler) == handler \in {"failing_handler", "FailingCallable"}
HandlerHasName(handler) == handler # "FailingCallable"

\* InMemoryEventPublisher._notify_subscriber: how it ends.  The except block
\* formats subscriber.__name__ into the log line, which raises AttributeError
\* out of the block when the subscriber has no such attribute.
notify_subscriber(subscriber) ==
    IF ~HandlerRaises(subscriber) THEN "returned"
    ELSE IF HandlerHasName(subscriber) THEN "returned"
    ELSE "AttributeError"

\* What a subscribed callable does with the publisher while it handles an
\* event: republishing_handler, handed a UserCreatedEvent, calls publish with
\* a UserUpdatedEvent of the same aggregate; every other handler, and
\* republishing_handler on any other event, publishes nothing.
handler_publishes(handler, event) ==
    IF handler = "republishing_handler" /\ event.type = "UserCreatedEvent"
    THEN <<UserUpdatedEvent(event.aggregate_id, event.aggregate_id, <<"email">>)>>
    ELSE <<>>

RECURSIVE publish(_, _, _)

\* The two for loops of publish over the handlers in order: the handlers
\* invoked, the events appended to the history meanwhile and how the loops
\* end.  A publish call made by a handler runs inside that handler's call,
\* and an exception leaving it is the handler's exception.
RECURSIVE notify_each(_, _, _, _)
notify_each(by_type, all, subscribers, event) ==
    IF subscribers = <<>>
    THEN [invoked |-> <<>>, appended |-> <<>>, outcome |-> "returned"]
    ELSE LET subscriber == Head(subscribers)
             nested == handler_publishes(subscriber, event)
             inner == IF nested = <<>>
                      THEN [invoked |-> <<>>, appended |-> <<>>, outcome |-> "returned"]
                      ELSE publish(by_type, all, nested[1])
             first == IF inner.outcome = "returned" THEN notify_subscriber(subscriber)
                      ELSE IF HandlerHasName(subscriber) THEN "returned"
                      ELSE "AttributeError"
             rest == notify_each(by_type, all, Tail(subscribers), event)
         IN IF first # "returned"
            THEN [invoked |-> <<subscriber>> \o inner.invoked,
                  appended |-> inner.appended, outcome |-> first]
            ELSE [invoked |-> <<subscriber>> \o inner.invoked \o rest.invoked,
                  appended |-> inner.appended \o rest.appended,
                  outcome |-> rest.outcome]

\* Mutant: publish appends the event to the history after the handlers ran.
publish_append_last(by_type, all, event) ==
    [notify_each(by_type, all, notified(by_type, all, event), event)
        EXCEPT !.appended = @ \o <<event>>]

\* InMemoryEventPublisher.publish: the append to the history, then the loops.
publish(by_type, all, event) ==
    [notify_each(by_type, all, notified(by_type, all, event), event)
        EXCEPT !.appended = <<event>> \o @]

(***************************************************************************)
(* api/exception_handlers.py                                               *)
(***************************************************************************)
EmptyDict == [k \in {} |-> ""]
\* Python's None where a dict is expected.
NoneDict == [None |-> "None"]
\* `extra or {}` / `details or {}` in the exception constructors.
DictOr(d, e) == IF d = NoneDict \/ d = EmptyDict THEN e ELSE d

\* The classes an exception class inherits from, itself included.
Mro(class) ==
    {class, "Exception"} \cup
    (CASE class \in {"ValidationError", "NotFoundError", "UnauthorizedError",
                     "ConflictError"} -> {"ApplicationError"}
       [] class \in {"EntityNotFoundError", "BusinessRuleViolationError",
                     "InvalidValueError"} -> {"DomainException"}
       [] class \in {"DRFValidationError", "NotFound", "DRFPermissionDenied",
                     "NotAuthenticated"} -> {"APIException"}
       [] class = "DoesNotExist" -> {"ObjectDoesNotExist"}
       [] OTHER -> {})
isinstance(exc, class) == class \in Mro(exc.class)

\* An exception object: ApplicationError(message, extra) and
\* DomainException(message, details) keep the dictionary in `extra`; an
\* APIException keeps its detail.
Exc(class, message, extra) ==
    [class |-> class, message |-> message, extra |-> DictOr(extra, EmptyDict),
     detail |-> message]
NoException == Exc("", "", EmptyDict)

\* A Response, or None.
Response(data, status) == [none |-> FALSE, data |-> data, status |-> status]
NoResponse == [none |-> TRUE, data |-> EmptyDict, status |-> 0]

\* status_code of the rest_framework exceptions.
api_status_code(exc) ==
    CASE isinstance(exc, "DRFValidationError") -> 400
      [] isinstance(exc, "NotAuthenticated") -> 401
      [] isinstance(exc, "DRFPermissionDenied") -> 403
      [] isinstance(exc, "NotFound") -> 404
      [] OTHER -> 500

\* rest_framework.views.exception_handler: a response for an APIException
\* (Http404 and PermissionDenied were converted before the call), else None.
exception_handler(exc) ==
    IF isinstance(exc, "APIException")
    THEN Response([detail |-> exc.detail], api_status_code(exc))
    ELSE NoResponse

\* Mutant: the ConflictError test comes too late to be reached.
application_status_shadowed(exc) ==
    IF isinstance(exc, "NotFoundError") THEN 404
    ELSE IF isinstance(exc, "ApplicationError") THEN 400
    ELSE IF isinstance(exc, "ConflictError") THEN 409
    ELSE 400

\* The status chosen for an ApplicationError.
application_status(exc) ==
    IF isinstance(exc, "NotFoundError") THEN 404
    ELSE IF isinstance(exc, "ConflictError") THEN 409
    ELSE IF isinstance(exc, "UnauthorizedError") THEN 401
    ELSE IF isinstance(exc, "ValidationError") THEN 400
    ELSE 400

\* drf_custom_exception_handler
drf_custom_exception_handler(exc0) ==
    LET exc1 == IF isinstance(exc0, "DjangoValidationError")
                THEN Exc("DRFValidationError", exc0.message, EmptyDict) ELSE exc0
        exc2 == IF isinstance(exc1, "Http404")
                THEN Exc("NotFound", "Not found.", EmptyDict) ELSE exc1
        exc == IF isinstance(exc2, "PermissionDenied")
               THEN Exc("DRFPermissionDenied", "Permission denied.", EmptyDict)
               ELSE exc2
        response == exception_handler(exc)
    IN IF response.none
       THEN IF isinstance(exc, "ApplicationError")
            THEN Response([message |-> exc.message, extra |-> exc.extra],
                          application_status(exc))
            ELSE IF isinstance(exc, "DomainException")
            THEN Response([message |-> exc.message, extra |-> exc.extra], 400)
            ELSE response
       ELSE IF isinstance(exc, "DRFValidationError")
            THEN Response([message |-> "Validation error",
                           extra |-> [fields |-> response.data.detail]],
                          response.status)
            ELSE Response([message |-> response.data.detail, extra |-> EmptyDict],
                          response.status)

(***************************************************************************)
(* application/user/use_cases.py and application/authentication            *)
(***************************************************************************)
S_already_taken ==
    <<"a", "l", "r", "e", "a", "d", "y", " ", "t", "a", "k", "e", "n">>
S_Username == <<"U", "s", "e", "r", "n", "a", "m", "e">>

\* The password policy collaborator (password_validation.validate_password):
\* the passwords it rejects.
WeakPasswords == {<<"w">>}
validate_password(password) == password \notin WeakPasswords

\* RefreshToken.for_user(django_user): the token pair of one issuer call.
RefreshToken_for_user(django_user) ==
    [refresh_token |-> <<"refresh", django_user>>,
     access_token |-> <<"access", django_user>>]
NoTokens == [refresh_token |-> None, access_token |-> None]

\* What one execute call did: how it ended ("returned" or the class of the
\* exception that reached the caller), the extra["field"] of an application
\* error, what it returned, the table afterwards, the number of
\* repository.save calls and the events it published; minted counts the
\* calls of the token issuer and tokens is what the result carries.
Outcome(outcome, field, returns, dto, db, saves, published) ==
    [outcome |-> outcome, field |-> field, returns |-> returns, dto |-> dto,
     db |-> db, saves |-> saves, published |-> published,
     minted |-> 0, tokens |-> NoTokens]
Raise(e, field, db, saves) == Outcome(e, field, "raise", NoDTO, db, saves, <<>>)

\* Mutant: the event is published before repository.save is called.
CreateUserUseCase_publish_first(db, user_data) ==
    LET v == validate_user_creation(db, user_data.username, user_data.email)
        user == User(NoneId, user_data.username, user_data.email,
                     user_data.first_name, user_data.last_name, TRUE,
                     DefaultFlags, user_data.password)
        s == save(db, user.value)
        early == UserCreatedEvent(NoneId, user.value.username, user.value.email)
    IN IF v.kind = "BusinessRuleViolationError"
       THEN IF str_contains(S_already_taken, v.message)
            THEN Raise("ConflictError",
                       IF str_contains(S_Username, v.message) THEN "username" ELSE "email",
                       db, 0)
            ELSE Raise("ValidationError", "", db, 0)
       ELSE IF v.kind # "ok" THEN Raise(v.kind, "", db, 0)
       ELSE IF ~user.ok THEN Raise("ValueError", "", db, 0)
       ELSE IF ~s.ok THEN Outcome(s.error, "", "raise", NoDTO, db, 1, <<early>>)
       ELSE Outcome("returned", "", "dto", to_dto(s.user), s.db, 1, <<early>>)

\* CreateUserUseCase.execute
CreateUserUseCase_execute(db, user_data) ==
    LET v == validate_user_creation(db, user_data.username, user_data.email)
        user == User(NoneId, user_data.username, user_data.email,
                     user_data.first_name, user_data.last_name, TRUE,
                     DefaultFlags, user_data.password)
        s == save(db, user.value)
        event == UserCreatedEvent(s.user.id, s.user.username, s.user.email)
    IN IF v.kind = "BusinessRuleViolationError"
       THEN IF str_contains(S_already_taken, v.message)
            THEN Raise("ConflictError",
                       IF str_contains(S_Username, v.message) THEN "username" ELSE "email",
                       db, 0)
            ELSE Raise("ValidationError", "", db, 0)
       ELSE IF v.kind # "ok" THEN Raise(v.kind, "", db, 0)
       ELSE IF ~user.ok THEN Raise("ValueError", "", db, 0)
       ELSE IF ~s.ok THEN Raise(s.error, "", db, 1)
       ELSE Outcome("returned", "", "dto", to_dto(s.user), s.db, 1, <<event>>)

\* UpdateUserUseCase.execute
UpdateUserUseCase_execute(db, user_id, user_data) ==
    LET g == get_by_id(db, user_id)
        user == g.user
        eu == is_email_unique(db, user_data.email, user_id)
        updated_fields ==
            (IF user_data.first_name # None THEN <<"first_name">> ELSE <<>>)
            \o (IF user_data.last_name # None THEN <<"last_name">> ELSE <<>>)
            \o (IF user_data.email # None THEN <<"email">> ELSE <<>>)
        changed ==
            [user EXCEPT
                !.first_name = IF user_data.first_name # None
                               THEN user_data.first_name ELSE @,
                !.last_name = IF user_data.last_name # None
                              THEN user_data.last_name ELSE @,
                !.email = IF user_data.email # None
                          THEN str_strip(str_lower(user_data.email)) ELSE @]
        s == save(db, changed)
        event == UserUpdatedEvent(s.user.id, s.user.id, updated_fields)
    IN IF g.kind = "none" THEN Raise("NotFoundError", "", db, 0)
       ELSE IF g.kind = "error" THEN Raise(g.error, "", db, 0)
       ELSE IF TruthyStr(user_data.email) /\ user_data.email # user.email /\ eu.raised
            THEN Raise(eu.error, "", db, 0)
       ELSE IF TruthyStr(user_data.email) /\ user_data.email # user.email /\ ~eu.unique
            THEN Raise("ConflictError", "email", db, 0)
       ELSE IF "phone_number" \notin UserUpdateDTOAttrs
            THEN Raise("AttributeError", "", db, 0)
       ELSE IF ~s.ok THEN Raise(s.error, "", db, 1)
       ELSE Outcome("returned", "", "dto", to_dto(s.user), s.db, 1,
                    IF updated_fields # <<>> THEN <<event>> ELSE <<>>)

\* Mutant: GetUser writes the user it loaded back through repository.save.
GetUserUseCase_resave(db, user_id) ==
    LET g == get_by_id(db, user_id)
        s == save(db, g.user)
    IN IF g.kind = "none" THEN Raise("NotFoundError", "", db, 0)
       ELSE IF g.kind = "error" THEN Raise(g.error, "", db, 0)
       ELSE Outcome("returned", "", "dto", to_dto(g.user), s.db, 1, <<>>)

\* GetUserUseCase.execute
GetUserUseCase_execute(db, user_id) ==
    LET g == get_by_id(db, user_id)
    IN IF g.kind = "none" THEN Raise("NotFoundError", "", db, 0)
       ELSE IF g.kind = "error" THEN Raise(g.error, "", db, 0)
       ELSE Outcome("returned", "", "dto", to_dto(g.user), db, 0, <<>>)

\* ChangePasswordUseCase.execute
ChangePasswordUseCase_execute(db, user_id, old_password, new_password) ==
    LET g == get_by_id(db, user_id)
        user == g.user
        s == save(db, user)
        event == PasswordChangedEvent(user.id, user.id)
    IN IF g.kind = "none" THEN Raise("NotFoundError", "", db, 0)
       ELSE IF g.kind = "error" THEN Raise(g.error, "", db, 0)
       ELSE IF "check_password" \notin UserAttrs THEN Raise("AttributeError", "", db, 0)
       ELSE IF ~check_password(old_password, db[user_id].password)
            THEN Raise("DRFValidationError", "", db, 0)
       ELSE IF ~validate_password(new_password)
            THEN Raise("DjangoValidationError", "", db, 0)
       ELSE IF ~s.ok THEN Raise(s.error, "", db, 1)
       ELSE Outcome("returned", "", "void", NoDTO, s.db, 1, <<event>>)

\* AuthenticateUserUseCase.execute; django_user is what
\* django.contrib.auth.authenticate(username, password) answered: the id of
\* the verified user, or None.
AuthenticateUserUseCase_execute(db, django_user) ==
    LET g == get_by_id(db, django_user)
    IN IF django_user = NoneId THEN Outcome("returned", "", "None", NoDTO, db, 0, <<>>)
       ELSE IF g.kind = "none" THEN Outcome("returned", "", "None", NoDTO, db, 0, <<>>)
       ELSE IF g.kind = "error" THEN Raise(g.error, "", db, 0)
       ELSE IF ~can_user_authenticate(g.user)
            THEN Outcome("returned", "", "None", NoDTO, db, 0, <<>>)
       ELSE Outcome("returned", "", "dto", to_dto(g.user), db, 0, <<>>)

\* An outcome of the JWT use case after `mints` calls of the token issuer.
Minted(o, mints, tokens) == [o EXCEPT !.minted = mints, !.tokens = tokens]

\* Mutant: the token pair is issued right after authenticate answered, before
\* the repository lookup and the is_active check.
AuthenticateUserJWTUseCase_mint_first(db, django_user) ==
    LET g == get_by_id(db, django_user)
        refresh == RefreshToken_for_user(django_user)
        none == Outcome("returned", "", "None", NoDTO, db, 0, <<>>)
    IN IF django_user = NoneId THEN none
       ELSE IF g.kind = "none" THEN Minted(none, 1, NoTokens)
       ELSE IF g.kind = "error" THEN Minted(Raise(g.error, "", db, 0), 1, NoTokens)
       ELSE IF ~can_user_authenticate(g.user) THEN Minted(none, 1, NoTokens)
       ELSE Minted(Outcome("returned", "", "dto", to_dto(g.user), db, 0, <<>>),
                   1, refresh)

\* AuthenticateUserJWTUseCase.execute; django_user as in
\* AuthenticateUserUseCase.execute.
AuthenticateUserJWTUseCase_execute(db, django_user) ==
    LET g == get_by_id(db, django_user)
        refresh == RefreshToken_for_user(django_user)
        none == Outcome("returned", "", "None", NoDTO, db, 0, <<>>)
    IN IF django_user = NoneId THEN none
       ELSE IF g.kind = "none" THEN none
       ELSE IF g.kind = "error" THEN Raise(g.error, "", db, 0)
       ELSE IF ~can_user_authenticate(g.user) THEN none
       ELSE Minted(Outcome("returned", "", "dto", to_dto(g.user), db, 0, <<>>),
                   1, refresh)

(***************************************************************************)
(* Inputs of the model.                                                    *)
(***************************************************************************)
UsernameInputs ==
    {<<"a", "b">>, <<"c", " ", "d">>, <<"a", " ", " ", "b">>, <<"a", "b", "\n">>, <<>>}
EmailInputs ==
    {<<"a", "@", "b", ".", "c", "o">>,
     <<"A", "@", "b", ".", "c", "o", "\n">>,
     <<" ", "a", "@", "b", ".", "c", "o">>,
     <<"U", "s", "e", "r", "n", "a", "m", "e", "@", "b", ".", "c", "o">>,
     <<"b", "a", "d">>}
CreatePasswords == {<<"p", "1">>}
OldPasswords == {<<"p", "1">>, <<"p", "2">>}
NewPasswords == {<<"p", "2">>, <<"w">>}
UpdateEmailInputs ==
    {None,
     <<"a", "@", "b", ".", "c", "o">>,
     <<"A", "@", "b", ".", "c", "o", "\n">>,
     <<" ", "a", "@", "b", ".", "c", "o">>}
NameInputs == {None, <<"x">>}
IdInputs == 1..(MaxUsers + 1)

(***************************************************************************)
(* State: the users table, the event bus of the container, and a record of *)
(* the last use-case call with what it did.                                *)
(***************************************************************************)
VARIABLES users, events, subscribers_by_type, all_subscribers, calls, last,
          registrations, container, instances, threads, response

\* registrations is the log of the subscribe calls made on the bus, in call
\* order; container, instances and threads are the module global _container,
\* the ServiceContainer objects built so far and the threads inside
\* get_container; response is what the exception handler answered last.
containerVars == <<container, instances, threads>>
serviceVars == <<users, events, subscribers_by_type, all_subscribers, calls, last,
                 registrations, response>>
vars == <<users, events, subscribers_by_type, all_subscribers, calls, last,
          registrations, container, instances, threads, response>>

NoArgs ==
    [user_id |-> NoneId, username |-> None, email |-> None, first_name |-> None,
     last_name |-> None, password |-> None, new_password |-> None,
     handler |-> "", event_type |-> "", exc |-> NoException]

Threads == 1..MaxThreads
\* A thread outside get_container: built is the object it constructed in the
\* current call, results the objects its calls returned, gets its calls.
IdleThread == [pc |-> "idle", built |-> NoneId, results |-> {}, gets |-> 0]

\* The record of a step that is not a use-case call.
Step(op, args, outcome, returns, notified_handlers) ==
    [op |-> op, args |-> args, outcome |-> outcome, field |-> "",
     returns |-> returns, dto |-> NoDTO, saves |-> 0, published |-> <<>>,
     notified |-> notified_handlers, minted |-> 0, tokens |-> NoTokens]

Init ==
    /\ users = <<>>
    /\ events = <<>>
    /\ subscribers_by_type = ContainerSubscribersByType
    /\ all_subscribers = ContainerAllSubscribers
    /\ calls = <<>>
    /\ last = Step("init", NoArgs, "returned", "void", <<>>)
    /\ registrations = ContainerRegistrations
    /\ container = 1
    /\ instances = (1 :> ContainerBus)
    /\ threads = [t \in Threads |-> IdleThread]
    /\ response = NoResponse

RECURSIVE notified_all(_, _, _)
notified_all(by_type, all, published) ==
    IF published = <<>> THEN <<>>
    ELSE notified(by_type, all, Head(published))
         \o notified_all(by_type, all, Tail(published))

\* One execute call through the container: the table becomes what the call
\* left, every published event is appended to the history and delivered.
Execute(op, args, result) ==
    \E r \in {result} :
    /\ Cardinality(DOMAIN r.db) <= MaxUsers
    /\ Len(events) + Len(r.published) <= MaxEvents
    /\ users' = r.db
    /\ events' = events \o r.published
    /\ calls' = calls \o notified_all(subscribers_by_type, all_subscribers, r.published)
    /\ last' = [op |-> op, args |-> args,
                outcome |-> r.outcome, field |-> r.field, returns |-> r.returns,
                dto |-> r.dto, saves |-> r.saves, published |-> r.published,
                notified |-> notified_all(subscribers_by_type, all_subscribers,
                                          r.published),
                minted |-> r.minted, tokens |-> r.tokens]
    /\ UNCHANGED <<subscribers_by_type, all_subscribers, registrations,
                   containerVars, response>>

CreateUser ==
    \E username \in UsernameInputs, email \in EmailInputs,
       password \in CreatePasswords :
        LET args == [NoArgs EXCEPT !.username = username, !.email = email,
                                   !.password = password]
        IN Execute("CreateUser", args, CreateUserUseCase_execute(users, args))

UpdateUser ==
    \E user_id \in IdInputs, first_name \in NameInputs, last_name \in NameInputs,
       email \in UpdateEmailInputs :
        LET args == [NoArgs EXCEPT !.user_id = user_id, !.first_name = first_name,
                                   !.last_name = last_name, !.email = email]
        IN Execute("UpdateUser", args, UpdateUserUseCase_execute(users, user_id, args))

GetUser ==
    \E user_id \in IdInputs :
        Execute("GetUser", [NoArgs EXCEPT !.user_id = user_id],
                GetUserUseCase_execute(users, user_id))

ChangePassword ==
    \E user_id \in IdInputs, old_password \in OldPasswords,
       new_password \in NewPasswords :
        Execute("ChangePassword",
                [NoArgs EXCEPT !.user_id = user_id, !.password = old_password,
                               !.new_password = new_password],
                ChangePasswordUseCase_execute(users, user_id, old_password, new_password))

AuthenticateUser ==
    \E django_user \in IdInputs \cup {NoneId} :
        Execute("AuthenticateUser", [NoArgs EXCEPT !.user_id = django_user],
                AuthenticateUserUseCase_execute(users, django_user))

AuthenticateUserJWT ==
    \E django_user \in IdInputs \cup {NoneId} :
        Execute("AuthenticateUserJWT", [NoArgs EXCEPT !.user_id = django_user],
                AuthenticateUserJWTUseCase_execute(users, django_user))

\* UserAdmin.save_model with change=True: the admin site edits is_active of a
\* persisted user directly.
AdminSetActive ==
    \E id \in DOMAIN users, active \in BOOLEAN :
        /\ users[id].is_active # active
        /\ users' = [users EXCEPT ![id].is_active = active]
        /\ last' = Step("AdminSetActive", [NoArgs EXCEPT !.user_id = id],
                         "returned", "void", <<>>)
        /\ UNCHANGED <<events, subscribers_by_type, all_subscribers, calls,
                       registrations, containerVars, response>>

Next ==
    \/ CreateUser
    \/ UpdateUser
    \/ GetUser
    \/ ChangePassword
    \/ AuthenticateUser
    \/ AuthenticateUserJWT
    \/ AdminSetActive

Spec == Init /\ [][Next]_vars

(***************************************************************************)
(* Threads inside CreateUserUseCase.execute at the same time, on the one   *)
(* container.  A thread's call is three steps: the pre-flight check with   *)
(* the construction of the entity, repository.save, and the publish with   *)
(* the return.  Each thread makes one call.                                *)
(***************************************************************************)
\* execute up to the save: validate_user_creation reads the table as it is
\* now; a call it refuses ends here.
CreateUserValidate(t) ==
    /\ threads[t].pc = "idle"
    /\ \E username \in {<<"a", "b">>, <<"c", " ", "d">>},
          email \in {<<"a", "@", "b", ".", "c", "o">>,
                     <<"A", "@", "b", ".", "c", "o", "\n">>,
                     <<"U", "s", "e", "r", "n", "a", "m", "e", "@", "b", ".", "c", "o">>} :
        \E r \in {CreateUserUseCase_execute(
                      users, [NoArgs EXCEPT !.username = username, !.email = email,
                                            !.password = <<"p", "1">>])} :
            threads' = [threads EXCEPT ![t] =
                [pc |-> IF r.saves = 0 THEN "raised" ELSE "validated",
                 args |-> [NoArgs EXCEPT !.username = username, !.email = email,
                                         !.password = <<"p", "1">>],
                 outcome |-> IF r.saves = 0 THEN r.outcome ELSE "",
                 saves |-> 0, saved |-> NoDTO]]
    /\ UNCHANGED <<serviceVars, container, instances>>

\* saved_user = self._user_repository.save(user), on the table as it is now.
CreateUserSave(t) ==
    /\ threads[t].pc = "validated"
    /\ \E s \in {save(users, User(NoneId, threads[t].args.username,
                                  threads[t].args.email, threads[t].args.first_name,
                                  threads[t].args.last_name, TRUE, DefaultFlags,
                                  threads[t].args.password).value)} :
        /\ users' = s.db
        /\ threads' = [threads EXCEPT ![t] =
              [@ EXCEPT !.pc = IF s.ok THEN "saved" ELSE "raised",
                        !.outcome = IF s.ok THEN "" ELSE s.error,
                        !.saves = 1,
                        !.saved = IF s.ok THEN to_dto(s.user) ELSE NoDTO]]
    /\ UNCHANGED <<events, subscribers_by_type, all_subscribers, calls, last,
                   registrations, response, container, instances>>

\* publish(UserCreatedEvent(saved_user...)) and return self._to_dto(saved_user)
CreateUserPublish(t) ==
    /\ threads[t].pc = "saved"
    /\ \E event \in {UserCreatedEvent(threads[t].saved.id, threads[t].saved.username,
                                      threads[t].saved.email)} :
        /\ \E r \in {publish(subscribers_by_type, all_subscribers, event)} :
            /\ events' = events \o r.appended
            /\ calls' = calls \o r.invoked
    /\ threads' = [threads EXCEPT ![t] = [@ EXCEPT !.pc = "returned",
                                                    !.outcome = "returned"]]
    /\ UNCHANGED <<users, subscribers_by_type, all_subscribers, last,
                   registrations, response, container, instances>>

RaceSpec ==
    Init /\ [][\E t \in Threads :
                  CreateUserValidate(t) \/ CreateUserSave(t) \/ CreateUserPublish(t)]_vars

(***************************************************************************)
(* A bare InMemoryEventPublisher driven through subscribe and publish.     *)
(***************************************************************************)
BusHandlers == {"handle_user_created", "failing_handler", "FailingCallable"}
BusEventTypes == {"UserCreatedEvent", "UserUpdatedEvent", NoEventType}
BusEvents ==
    {UserCreatedEvent(1, <<"a", "b">>, <<"a", "@", "b", ".", "c", "o">>),
     UserUpdatedEvent(1, 1, <<"email">>)}

BusInit ==
    /\ users = <<>>
    /\ events = <<>>
    /\ subscribers_by_type = EmptyBus.by_type
    /\ all_subscribers = EmptyBus.all
    /\ calls = <<>>
    /\ last = Step("init", NoArgs, "returned", "void", <<>>)
    /\ registrations = <<>>
    /\ container = NoneId
    /\ instances = [i \in {} |-> EmptyBus]
    /\ threads = [t \in Threads |-> IdleThread]
    /\ response = NoResponse

Subscribe ==
    \E handler \in BusHandlers, event_type \in BusEventTypes :
        /\ Len(registrations) < MaxSubscriptions
        /\ \E bus \in {subscribe([by_type |-> subscribers_by_type,
                                   all |-> all_subscribers], handler, event_type)} :
            /\ subscribers_by_type' = bus.by_type
            /\ all_subscribers' = bus.all
        /\ registrations' = Append(registrations, <<handler, event_type>>)
        /\ last' = Step("subscribe",
                         [NoArgs EXCEPT !.handler = handler, !.event_type = event_type],
                         "returned", "void", <<>>)
        /\ UNCHANGED <<users, events, calls, containerVars, response>>

Publish ==
    \E event \in BusEvents :
        /\ Len(events) < MaxPublishes
        /\ \E r \in {publish(subscribers_by_type, all_subscribers, event)} :
            /\ events' = events \o r.appended
            /\ calls' = calls \o r.invoked
            /\ last' = [Step("publish", [NoArgs EXCEPT !.event_type = event.type],
                              r.outcome, "void", r.invoked)
                         EXCEPT !.published = r.appended]
        /\ UNCHANGED <<users, subscribers_by_type, all_subscribers, registrations,
                       containerVars, response>>

BusNext ==
    \/ Subscribe
    \/ Publish

BusSpec == BusInit /\ [][BusNext]_vars

(***************************************************************************)
(* A publisher whose subscribers include a handler that publishes: the     *)
(* subscribe calls were made beforehand, publish is called from outside.   *)
(***************************************************************************)
ReentryInit ==
    /\ registrations \in
         [1..MaxSubscriptions ->
             {<<"republishing_handler", "UserCreatedEvent">>,
              <<"handle_user_created", "UserCreatedEvent">>,
              <<"handle_user_updated", "UserUpdatedEvent">>,
              <<"republishing_handler", NoEventType>>,
              <<"handle_user_created", NoEventType>>}]
    /\ subscribers_by_type = subscribe_each(EmptyBus, registrations).by_type
    /\ all_subscribers = subscribe_each(EmptyBus, registrations).all
    /\ users = <<>>
    /\ events = <<>>
    /\ calls = <<>>
    /\ last = Step("init", NoArgs, "returned", "void", <<>>)
    /\ container = NoneId
    /\ instances = [i \in {} |-> EmptyBus]
    /\ threads = [t \in Threads |-> IdleThread]
    /\ response = NoResponse

ReentrySpec == ReentryInit /\ [][Publish]_vars

(***************************************************************************)
(* The history of the publisher read and cleared between publish calls.    *)
(* response holds the list get_events returned last.                       *)
(***************************************************************************)
\* Mutant: get_events returns the history list itself.
get_events_alias(history) == [items |-> history, is_history |-> TRUE]

\* InMemoryEventPublisher.get_events: self._events.copy() is a new list
\* object with the same items.
get_events(history) == [items |-> history, is_history |-> FALSE]

GetEvents ==
    /\ response' = get_events(events)
    /\ last' = Step("get_events", NoArgs, "returned", "list", <<>>)
    /\ UNCHANGED <<users, events, subscribers_by_type, all_subscribers, calls,
                   registrations, containerVars>>

\* The caller empties the list it got from get_events; the history is
\* emptied with it when the two are one list object.
ChangeReturned ==
    /\ "items" \in DOMAIN response
    /\ response.items # <<>>
    /\ response' = [response EXCEPT !.items = <<>>]
    /\ events' = IF response.is_history THEN <<>> ELSE events
    /\ last' = Step("change_returned", NoArgs, "returned", "void", <<>>)
    /\ UNCHANGED <<users, subscribers_by_type, all_subscribers, calls,
                   registrations, containerVars>>

\* InMemoryEventPublisher.clear_events: self._events.clear()
ClearEvents ==
    /\ Len(calls) < MaxCalls
    /\ events # <<>>
    /\ events' = <<>>
    /\ last' = Step("clear_events", NoArgs, "returned", "void", <<>>)
    /\ UNCHANGED <<users, subscribers_by_type, all_subscribers, calls,
                   registrations, containerVars, response>>

HistorySpec ==
    ReentryInit /\ [][Publish \/ GetEvents \/ ChangeReturned \/ ClearEvents]_vars

(***************************************************************************)
(* Threads calling get_container() before any container exists.            *)
(***************************************************************************)
ContainerInit ==
    /\ users = <<>>
    /\ events = <<>>
    /\ subscribers_by_type = EmptyBus.by_type
    /\ all_subscribers = EmptyBus.all
    /\ calls = <<>>
    /\ last = Step("init", NoArgs, "returned", "void", <<>>)
    /\ registrations = <<>>
    /\ container = NoneId
    /\ instances = [i \in {} |-> EmptyBus]
    /\ threads = [t \in Threads |-> IdleThread]
    /\ response = NoResponse

\* A thread enters get_container().
GetContainerCall(t) ==
    /\ threads[t].pc = "idle"
    /\ threads[t].gets < MaxGetCalls
    /\ threads' = [threads EXCEPT ![t].pc = "test", ![t].gets = @ + 1]
    /\ UNCHANGED <<container, instances, serviceVars>>

\* `if _container is None:`
GetContainerTest(t) ==
    /\ threads[t].pc = "test"
    /\ threads' = [threads EXCEPT
                      ![t].pc = IF container = NoneId THEN "construct" ELSE "return"]
    /\ UNCHANGED <<container, instances, serviceVars>>

\* `ServiceContainer()`: a new object with its own publisher.
GetContainerConstruct(t) ==
    /\ threads[t].pc = "construct"
    /\ \E id \in {Cardinality(DOMAIN instances) + 1} :
        /\ instances' = (id :> ContainerBus) @@ instances
        /\ threads' = [threads EXCEPT ![t].pc = "assign", ![t].built = id]
    /\ UNCHANGED <<container, serviceVars>>

\* `_container = ...`
GetContainerAssign(t) ==
    /\ threads[t].pc = "assign"
    /\ container' = threads[t].built
    /\ threads' = [threads EXCEPT ![t].pc = "return"]
    /\ UNCHANGED <<instances, serviceVars>>

\* `return _container`
GetContainerReturn(t) ==
    /\ threads[t].pc = "return"
    /\ threads' = [threads EXCEPT ![t].pc = "idle",
                                   ![t].results = @ \cup {container}]
    /\ UNCHANGED <<container, instances, serviceVars>>

ContainerNext ==
    \E t \in Threads :
        \/ GetContainerCall(t)
        \/ GetContainerTest(t)
        \/ GetContainerConstruct(t)
        \/ GetContainerAssign(t)
        \/ GetContainerReturn(t)

ContainerSpec == ContainerInit /\ [][ContainerNext]_vars

(***************************************************************************)
(* The repository of the container called directly: entities constructed   *)
(* and saved, and entities loaded by id, changed and saved again.          *)
(***************************************************************************)
\* How a repository.save call is recorded.
SaveStep(op, args, s) ==
    [Step(op, args, IF s.ok THEN "returned" ELSE s.error,
          IF s.ok THEN "user" ELSE "raise", <<>>)
     EXCEPT !.dto = IF s.ok THEN to_dto(s.user) ELSE NoDTO, !.saves = 1]

\* User(username=..., email=..., password=...) followed by repository.save.
RepositorySaveNew ==
    \E username \in UsernameInputs, email \in EmailInputs,
       password \in CreatePasswords :
        LET args == [NoArgs EXCEPT !.username = username, !.email = email,
                                   !.password = password]
            user == User(NoneId, username, email, None, None, TRUE,
                         DefaultFlags, password)
        IN /\ IF ~user.ok
              THEN /\ last' = Step("save_new", args, "ValueError", "raise", <<>>)
                   /\ UNCHANGED users
              ELSE \E s \in {save(users, user.value)} :
                   /\ Cardinality(DOMAIN s.db) <= MaxUsers
                   /\ users' = s.db
                   /\ last' = SaveStep("save_new", args, s)
           /\ UNCHANGED <<events, subscribers_by_type, all_subscribers, calls,
                          registrations, containerVars, response>>

\* repository.get_by_id(user_id), an optional change of first_name, then
\* repository.save of that entity.
RepositorySaveLoaded ==
    \E user_id \in IdInputs, first_name \in NameInputs :
        LET args == [NoArgs EXCEPT !.user_id = user_id, !.first_name = first_name]
            g == get_by_id(users, user_id)
        IN /\ g.kind = "user"
           /\ \E s \in {save(users, [g.user EXCEPT
                                        !.first_name = IF first_name # None
                                                       THEN first_name ELSE @])} :
                /\ users' = s.db
                /\ last' = SaveStep("save_loaded", args, s)
           /\ UNCHANGED <<events, subscribers_by_type, all_subscribers, calls,
                          registrations, containerVars, response>>

RepoNext ==
    \/ RepositorySaveNew
    \/ RepositorySaveLoaded

RepoSpec == Init /\ [][RepoNext]_vars

(***************************************************************************)
(* UserDomainService over a repository whose table is given.               *)
(***************************************************************************)
ServiceIds == 0..(MaxUsers - 1)
ServiceUsernames == {<<"a", "b">>, <<"c", " ", "d">>}
ServiceEmails ==
    {<<"a", "@", "b", ".", "c", "o">>, <<"x", "@", "b", ".", "c", "o">>}
ServiceRow(username, email) ==
    [username |-> username, email |-> email, first_name |-> <<>>,
     last_name |-> <<>>, is_active |-> TRUE, is_staff |-> FALSE,
     is_admin |-> FALSE, is_superuser |-> FALSE,
     password |-> make_password(<<"p", "1">>)]
\* The tables of at most MaxUsers rows with unique usernames and emails.
ServiceTables ==
    {t \in UNION {[ids -> {ServiceRow(u, e) : u \in ServiceUsernames,
                                              e \in ServiceEmails}] :
                  ids \in SUBSET ServiceIds} :
        \A i \in DOMAIN t : storage_accepts(t, i, t[i])}
ExcludeInputs == ServiceIds \cup {NoneId, MaxUsers}
ServiceEmailInputs == ServiceEmails \cup {<<"A", "@", "b", ".", "c", "o">>}

ServiceInit ==
    /\ users \in ServiceTables
    /\ events = <<>>
    /\ subscribers_by_type = ContainerSubscribersByType
    /\ all_subscribers = ContainerAllSubscribers
    /\ calls = <<>>
    /\ last = Step("init", NoArgs, "returned", "void", <<>>)
    /\ registrations = ContainerRegistrations
    /\ container = 1
    /\ instances = (1 :> ContainerBus)
    /\ threads = [t \in Threads |-> IdleThread]
    /\ response = NoResponse

\* How a uniqueness answer is recorded.
UniqueStep(op, args, r) ==
    Step(op, args, IF r.raised THEN r.error ELSE "returned",
         IF r.raised THEN "raise" ELSE IF r.unique THEN "True" ELSE "False", <<>>)

IsEmailUnique ==
    \E email \in ServiceEmailInputs, exclude_user_id \in ExcludeInputs :
        /\ last' = UniqueStep("is_email_unique",
                               [NoArgs EXCEPT !.email = email,
                                              !.user_id = exclude_user_id],
                               is_email_unique(users, email, exclude_user_id))
        /\ UNCHANGED <<users, events, subscribers_by_type, all_subscribers, calls,
                       registrations, containerVars, response>>

IsUsernameUnique ==
    \E username \in ServiceUsernames, exclude_user_id \in ExcludeInputs :
        /\ last' = UniqueStep("is_username_unique",
                               [NoArgs EXCEPT !.username = username,
                                              !.user_id = exclude_user_id],
                               is_username_unique(users, username, exclude_user_id))
        /\ UNCHANGED <<users, events, subscribers_by_type, all_subscribers, calls,
                       registrations, containerVars, response>>

\* Email(value) constructed from a string put together from a prefix, a
\* local part, the separator, a domain, a top-level part and a suffix; what
\* was built is kept in last.dto.email.
ConstructEmail ==
    \E pre \in {<<>>, <<" ">>},
       local \in {<<>>, <<"a">>, <<"A">>, <<"a", " ", "b">>},
       at \in {<<>>, <<"@">>},
       domain \in {<<>>, <<"b">>, <<"B">>},
       tld \in {<<>>, <<".", "c">>, <<".", "c", "o">>, <<".", "C", "O">>},
       post \in {<<>>, <<" ">>, <<"\n">>} :
        \E r \in {Email(pre \o local \o at \o domain \o tld \o post)} :
            /\ last' = [Step("Email",
                              [NoArgs EXCEPT !.email =
                                  pre \o local \o at \o domain \o tld \o post],
                              IF r.ok THEN "returned" ELSE "ValueError",
                              IF r.ok THEN "Email" ELSE "raise", <<>>)
                         EXCEPT !.dto = [NoDTO EXCEPT !.email = r.value]]
            /\ UNCHANGED <<users, events, subscribers_by_type, all_subscribers,
                           calls, registrations, containerVars, response>>

ServiceNext ==
    \/ IsEmailUnique
    \/ IsUsernameUnique
    \/ ConstructEmail

ServiceSpec == ServiceInit /\ [][ServiceNext]_vars

(***************************************************************************)
(* The exception handler of the API applied to one exception at a time.    *)
(***************************************************************************)
ExceptionClasses ==
    {"ApplicationError", "ValidationError", "NotFoundError", "UnauthorizedError",
     "ConflictError",
     "DomainException", "EntityNotFoundError", "BusinessRuleViolationError",
     "InvalidValueError",
     "DjangoValidationError", "Http404", "PermissionDenied",
     "APIException", "DRFValidationError", "NotFound", "DRFPermissionDenied",
     "NotAuthenticated",
     "AttributeError", "ValueError", "DoesNotExist", "MultipleObjectsReturned",
     "Exception"}
MessageInputs == {"", "User not found"}
ExtraInputs == {NoneDict, EmptyDict, [field |-> "email"], [field |-> "username"]}

HandleException ==
    \E class \in ExceptionClasses, message \in MessageInputs, extra \in ExtraInputs :
        \E exc \in {Exc(class, message, extra)} :
            /\ response' = drf_custom_exception_handler(exc)
            /\ last' = Step("handle", [NoArgs EXCEPT !.exc = exc], "returned",
                             "response", <<>>)
            /\ UNCHANGED <<users, events, subscribers_by_type, all_subscribers,
                           calls, registrations, containerVars>>

ApiNext == HandleException

ApiSpec == Init /\ [][ApiNext]_vars

(***************************************************************************)
(* Properties.                                                             *)
(***************************************************************************)
E_Upper_Newline == <<"A", "@", "b", ".", "c", "o", "\n">>
E_Canonical == <<"a", "@", "b", ".", "c", "o">>
E_Padded == <<" ", "a", "@", "b", ".", "c", "o">>
E_Username == <<"U", "s", "e", "r", "n", "a", "m", "e", "@", "b", ".", "c", "o">>
U_Newline == <<"a", "b", "\n">>

\* The email lower-cased and trimmed.
LowerTrim(email) == str_strip(str_lower(email))
UsernameTaken(db, username) == \E id \in DOMAIN db : db[id].username = username
EmailTaken(db, email) == \E id \in DOMAIN db : db[id].email = email
EmailOfOther(db, id, email) == \E o \in DOMAIN db \ {id} : db[o].email = email

\* C1: a CreateUser call with a valid username and email, neither registered
\* (the email compared lower-cased and trimmed), returns a view, and GetUser
\* with the returned id gives the same username and the email lower-cased
\* and trimmed.
C1_CreateThenGet ==
    [][(/\ last'.op = "CreateUser"
        /\ Username(last'.args.username).ok
        /\ Email(last'.args.email).ok
        /\ ~UsernameTaken(users, last'.args.username)
        /\ ~EmailTaken(users, LowerTrim(last'.args.email)))
       => /\ last'.outcome = "returned"
          /\ last'.returns = "dto"
          /\ LET got == GetUserUseCase_execute(users', last'.dto.id)
             IN /\ got.outcome = "returned"
                /\ got.dto.username = last'.args.username
                /\ got.dto.email = LowerTrim(last'.args.email)]_vars

C1_Witness ==
    /\ last.op = "CreateUser"
    /\ last.outcome = "returned"
    /\ last.args.email = E_Upper_Newline
    /\ GetUserUseCase_execute(users, last.dto.id).dto.email = E_Canonical

\* C2: a CreateUser call with a valid username and email fails with
\* ConflictError tagged field 'username' when the username is registered, and
\* with ConflictError tagged field 'email' when only the email (lower-cased)
\* is registered.
C2_DuplicateIsConflict ==
    [][(/\ last'.op = "CreateUser"
        /\ Username(last'.args.username).ok
        /\ Email(last'.args.email).ok)
       => /\ UsernameTaken(users, last'.args.username)
                => last'.outcome = "ConflictError" /\ last'.field = "username"
          /\ (/\ ~UsernameTaken(users, last'.args.username)
              /\ EmailTaken(users, str_lower(last'.args.email)))
                => last'.outcome = "ConflictError" /\ last'.field = "email"]_vars

\* C3: for a username that is empty or is not a sequence of
\* alphanumeric/underscore tokens separated by single spaces, constructing a
\* User fails, and CreateUser fails with the application ValidationError
\* without a save and without an event.
C3_BadUsernameRejected ==
    (last.op = "CreateUser" /\ ~UsernameFull(last.args.username))
    => /\ ~User(NoneId, last.args.username, last.args.email, None, None, TRUE,
                DefaultFlags, last.args.password).ok
       /\ last.outcome = "ValidationError"
       /\ last.saves = 0
       /\ last.published = <<>>

\* C4: UpdateUser of an existing user with any subset of first_name,
\* last_name and email supplied (the email not one of another user) returns
\* the view, persists exactly the supplied fields, the email lower-cased and
\* trimmed, and publishes one UserUpdated listing the supplied fields in the
\* order first_name, last_name, email, or nothing when none is supplied.
C4_PartialUpdate ==
    [][(/\ last'.op = "UpdateUser"
        /\ last'.args.user_id \in DOMAIN users
        /\ \/ last'.args.email = None
           \/ ~EmailOfOther(users, last'.args.user_id, LowerTrim(last'.args.email)))
       => LET id == last'.args.user_id
              a == last'.args
              S == (IF a.first_name # None THEN <<"first_name">> ELSE <<>>)
                   \o (IF a.last_name # None THEN <<"last_name">> ELSE <<>>)
                   \o (IF a.email # None THEN <<"email">> ELSE <<>>)
          IN /\ last'.outcome = "returned"
             /\ last'.dto.id = id
             /\ users'[id].first_name =
                    IF a.first_name # None THEN a.first_name ELSE users[id].first_name
             /\ users'[id].last_name =
                    IF a.last_name # None THEN a.last_name ELSE users[id].last_name
             /\ users'[id].email =
                    IF a.email # None THEN LowerTrim(a.email) ELSE users[id].email
             /\ last'.published =
                    IF S = <<>> THEN <<>> ELSE <<UserUpdatedEvent(id, id, S)>>]_vars

\* C5: UpdateUser of an existing user with an email supplied fails with
\* ConflictError tagged 'email' exactly when the email, lower-cased and
\* trimmed, is the email of a different user; on that outcome nothing is
\* saved and nothing is published.
C5_EmailConflictOnUpdate ==
    [][(/\ last'.op = "UpdateUser"
        /\ last'.args.user_id \in DOMAIN users
        /\ last'.args.email # None)
       => /\ (last'.outcome = "ConflictError" /\ last'.field = "email")
                <=> EmailOfOther(users, last'.args.user_id, LowerTrim(last'.args.email))
          /\ last'.outcome = "ConflictError"
                => last'.saves = 0 /\ last'.published = <<>> /\ users' = users]_vars

\* C6: GetUser, UpdateUser and ChangePassword with an id no persisted user
\* has fail with NotFoundError, save nothing and publish nothing.
C6_MissingIdIsNotFound ==
    [][(/\ last'.op \in {"GetUser", "UpdateUser", "ChangePassword"}
        /\ last'.args.user_id \notin DOMAIN users)
       => /\ last'.outcome = "NotFoundError"
          /\ last'.saves = 0
          /\ last'.published = <<>>
          /\ users' = users
          /\ events' = events]_vars

C6_Witness ==
    /\ last.op = "ChangePassword"
    /\ users # <<>>
    /\ last.args.user_id \notin DOMAIN users
    /\ last.outcome = "NotFoundError"

\* C7: ChangePassword for an existing user with an old password that does
\* not verify against the stored credential fails with the application
\* ValidationError, saves nothing and publishes nothing.
C7_WrongOldPassword ==
    [][(/\ last'.op = "ChangePassword"
        /\ last'.args.user_id \in DOMAIN users
        /\ ~check_password(last'.args.password, users[last'.args.user_id].password))
       => /\ last'.outcome = "ValidationError"
          /\ last'.saves = 0
          /\ last'.published = <<>>]_vars

\* C8: ChangePassword for an existing user with the correct old password and
\* a policy-valid new password returns, saves once and publishes exactly one
\* PasswordChanged whose user_id and aggregate_id are the given id.
C8_PasswordChangedOnce ==
    [][(/\ last'.op = "ChangePassword"
        /\ last'.args.user_id \in DOMAIN users
        /\ check_password(last'.args.password, users[last'.args.user_id].password)
        /\ validate_password(last'.args.new_password))
       => /\ last'.outcome = "returned"
          /\ last'.saves = 1
          /\ last'.published =
                <<PasswordChangedEvent(last'.args.user_id, last'.args.user_id)>>]_vars

C10_AuthenticateIff ==
    last.op = "AuthenticateUser"
    => /\ last.outcome = "returned"
       /\ last.returns \in {"dto", "None"}
       /\ last.returns = "dto"
            <=> /\ last.args.user_id # NoneId
                /\ last.args.user_id \in DOMAIN users
                /\ users[last.args.user_id].is_active
       /\ last.returns = "dto" => last.dto.id = last.args.user_id
       /\ last.saves = 0 /\ last.published = <<>>

C10_Witness ==
    /\ last.op = "AuthenticateUser"
    /\ last.args.user_id \in DOMAIN users
    /\ ~users[last.args.user_id].is_active
    /\ last.returns = "None"
    /\ last.outcome = "returned"

\* C11: the JWT use case calls the token issuer only after authenticate
\* answered a user, the repository holds that user and the user is active;
\* the result it returns then carries an access and a refresh token from
\* exactly one issuer call; when one of the three checks fails no token is
\* issued and the call returns None.
C11_TokensOnlyAfterChecks ==
    last.op = "AuthenticateUserJWT" =>
        LET id == last.args.user_id
            passed == /\ id # NoneId
                      /\ id \in DOMAIN users
                      /\ users[id].is_active
        IN /\ last.outcome = "returned"
           /\ last.minted > 0 => passed
           /\ passed => /\ last.returns = "dto"
                        /\ last.dto.id = id
                        /\ last.minted = 1
                        /\ last.tokens.access_token # None
                        /\ last.tokens.refresh_token # None
           /\ ~passed => /\ last.returns = "None"
                         /\ last.minted = 0
                         /\ last.tokens = NoTokens

\* A JWT authentication of an active persisted user that returned a result.
C11_Witness ==
    /\ last.op = "AuthenticateUserJWT"
    /\ last.returns = "dto"
    /\ last.minted = 1
    /\ last.args.user_id \in DOMAIN users

\* C12: publish appends the event to the history and then goes through the
\* handlers registered for exactly the event's type, in the order of their
\* subscribe calls, followed by the handlers registered without a type, in
\* the order of theirs: no other handler is invoked, none twice per
\* registration, and all of them when publish returns.
C12_PublishOrder ==
    [][last'.op = "publish" =>
        LET event == last'.published[1]
            ForType(reg) == reg[2] = event.type
            ForAll(reg) == reg[2] = NoEventType
            regs == SelectSeq(registrations, ForType)
                    \o SelectSeq(registrations, ForAll)
            expected == [i \in 1..Len(regs) |-> regs[i][1]]
            n == Len(last'.notified)
        IN /\ events' = Append(events, event)
           /\ n <= Len(expected)
           /\ last'.notified = SubSeq(expected, 1, n)
           /\ calls' = calls \o last'.notified
           /\ last'.outcome = "returned" => last'.notified = expected
    ]_vars

\* A publish that returned after notifying a typed handler that raised and
\* then a type-agnostic handler subscribed before it, while a handler of
\* another event type stayed silent.
C12_Witness ==
    /\ last.op = "publish"
    /\ last.outcome = "returned"
    /\ Len(registrations) = 3
    /\ registrations[1][2] = NoEventType
    /\ registrations[2] = <<"failing_handler", last.args.event_type>>
    /\ registrations[3][2] \notin {last.args.event_type, NoEventType}
    /\ last.notified = <<"failing_handler", registrations[1][1]>>

\* C13: whatever callable a handler is and whatever exception it raises,
\* publish notifies every handler registered for the event and returns.
C13_HandlerFailureIsolated ==
    [][last'.op = "publish" =>
        /\ last'.outcome = "returned"
        /\ last'.notified = notified(subscribers_by_type, all_subscribers,
                                     last'.published[1])
    ]_vars

\* C14: however many threads call get_container() and however their calls
\* interleave, ServiceContainer is constructed once and every call returns
\* that one object.
C14_ConstructedOnce ==
    /\ Cardinality(DOMAIN instances) <= 1
    /\ Cardinality(UNION {threads[t].results : t \in Threads}) <= 1

\* C15: in every constructed ServiceContainer the bus the use cases publish
\* on holds handle_user_created, handle_user_updated and
\* handle_password_changed once each, under UserCreatedEvent,
\* UserUpdatedEvent and PasswordChangedEvent and nowhere else; a CreateUser
\* that returns publishes one event, which invokes handle_user_created once
\* and no other handler.
C15_ContainerWiring ==
    /\ container \in DOMAIN instances
    /\ subscribers_by_type = instances[container].by_type
    /\ all_subscribers = instances[container].all
    /\ \A i \in DOMAIN instances :
        /\ DOMAIN instances[i].by_type = EventTypes
        /\ instances[i].by_type["UserCreatedEvent"] = <<"handle_user_created">>
        /\ instances[i].by_type["UserUpdatedEvent"] = <<"handle_user_updated">>
        /\ instances[i].by_type["PasswordChangedEvent"] = <<"handle_password_changed">>
        /\ instances[i].all = <<>>
    /\ last.op = "CreateUser" /\ last.outcome = "returned" =>
        /\ Len(last.published) = 1
        /\ last.published[1].type = "UserCreatedEvent"
        /\ last.notified = <<"handle_user_created">>
    /\ \A i \in 1..Len(calls) : calls[i] = "handle_user_created"
    /\ Len(calls) = Len(events)

\* A CreateUser that returned and whose event reached handle_user_created.
C15_Witness ==
    /\ last.op = "CreateUser"
    /\ last.outcome = "returned"
    /\ last.notified = <<"handle_user_created">>
    /\ Len(events) = 2

\* C16: saving an entity that came from get_by_id changes nothing the caller
\* did not set: every other column of the row, the stored credential
\* included, is as before, and the password the user was created with still
\* verifies.
C16_SaveKeepsOtherFields ==
    [][last'.op = "save_loaded" /\ last'.outcome = "returned" =>
        LET id == last'.args.user_id
            set == IF last'.args.first_name # None THEN {"first_name"} ELSE {}
        IN /\ DOMAIN users' = DOMAIN users
           /\ \A column \in (DOMAIN users[id]) \ set :
                users'[id][column] = users[id][column]
           /\ \A raw \in CreatePasswords :
                check_password(raw, users[id].password)
                    => check_password(raw, users'[id].password)
    ]_vars

\* C17: after a User constructed with email e was saved, get_by_email(e)
\* returns that user and exists_by_email(e) is true, whatever the case of e
\* and the whitespace around it.
C17_LookupNormalizesAsEntity ==
    last.op = "save_new" /\ last.outcome = "returned" =>
        LET found == get_by_email(users, last.args.email)
        IN /\ found.kind = "user"
           /\ found.user.id = last.dto.id
           /\ exists_by_email(users, last.args.email)

C19_ErrorKindToStatus ==
    last.op = "handle" =>
        LET exc == last.args.exc
            application == exc.class \in {"ApplicationError", "ValidationError",
                                          "NotFoundError", "UnauthorizedError",
                                          "ConflictError"}
            domain == exc.class \in {"DomainException", "EntityNotFoundError",
                                     "BusinessRuleViolationError",
                                     "InvalidValueError"}
            unrecognized == exc.class \in {"AttributeError", "ValueError",
                                           "DoesNotExist",
                                           "MultipleObjectsReturned", "Exception"}
        IN /\ application \/ domain =>
                /\ ~response.none
                /\ DOMAIN response.data = {"message", "extra"}
                /\ response.data.message = exc.message
                /\ response.data.extra = exc.extra
           /\ application =>
                response.status = CASE exc.class = "NotFoundError" -> 404
                                    [] exc.class = "ConflictError" -> 409
                                    [] exc.class = "UnauthorizedError" -> 401
                                    [] OTHER -> 400
           /\ domain => response.status = 400
           /\ unrecognized => response.none
           /\ ~response.none => DOMAIN response.data = {"message", "extra"}

\* A ConflictError carrying the offending field, answered with 409.
C19_Witness ==
    /\ last.op = "handle"
    /\ last.args.exc.class = "ConflictError"
    /\ last.args.exc.extra = [field |-> "email"]
    /\ response.status = 409
    /\ response.data.extra = [field |-> "email"]

\* C20: a CreateUser, UpdateUser, GetUser or ChangePassword call either
\* returns or raises ValidationError, NotFoundError, ConflictError or
\* UnauthorizedError; nothing else reaches the caller.
C20_OnlyApplicationErrors ==
    last.op \in {"CreateUser", "UpdateUser", "GetUser", "ChangePassword"} =>
        last.outcome \in {"returned", "ValidationError", "NotFoundError",
                          "ConflictError", "UnauthorizedError"}

UseCaseOps ==
    {"CreateUser", "UpdateUser", "GetUser", "ChangePassword", "AuthenticateUser",
     "AuthenticateUserJWT"}

\* C21: one execute call makes at most one repository.save call and at most
\* one publish call, and publishes only after its save returned; GetUser and
\* the two AuthenticateUser use cases save nothing, delete nothing and
\* publish nothing.
C21_SideEffectsAtMostOnce ==
    [][last'.op \in UseCaseOps =>
        /\ last'.saves <= 1
        /\ Len(last'.published) <= 1
        /\ events' = events \o last'.published
        /\ last'.published # <<>> =>
            /\ last'.saves = 1
            /\ last'.outcome = "returned"
            /\ users' # users
        /\ last'.op \in {"GetUser", "AuthenticateUser", "AuthenticateUserJWT"} =>
            /\ last'.saves = 0
            /\ last'.published = <<>>
            /\ users' = users
            /\ calls' = calls
    ]_vars

\* A CreateUser that saved once and then published once, followed in the
\* history by nothing else.
C21_Witness ==
    /\ last.op = "CreateUser"
    /\ last.saves = 1
    /\ Len(last.published) = 1
    /\ events = last.published
    /\ DOMAIN users = {1}

\* C22: a User is never structurally invalid: constructing one with an empty
\* or malformed username, an empty email or an email that has no valid
\* address shape fails, so every User that was constructed and saved has a
\* well-formed username and email.
C22_EntityNeverInvalid ==
    last.op = "save_new" /\ last.outcome # "ValueError" =>
        /\ UsernameFull(last.args.username)
        /\ EmailFull(LowerTrim(last.args.email))
        /\ \A id \in DOMAIN users :
            UsernameFull(users[id].username) /\ EmailFull(users[id].email)

\* C25: the use cases' own checks keep the users pairwise distinct without
\* help from a storage constraint: every row a CreateUser or UpdateUser call
\* hands to repository.save has an email that is lower-cased and trimmed,
\* and neither its username nor its email is that of another persisted user.
C25_ChecksAloneKeepUnique ==
    [][last'.op \in {"CreateUser", "UpdateUser"} /\ last'.saves = 1 =>
        LET id == last'.args.user_id
            row == IF last'.op = "UpdateUser"
                   THEN [username |-> users[id].username,
                         email |-> IF last'.args.email # None
                                   THEN LowerTrim(last'.args.email)
                                   ELSE users[id].email]
                   ELSE [username |-> last'.args.username,
                         email |-> LowerTrim(last'.args.email)]
        IN /\ ~\E o \in DOMAIN users \ {id} : users[o].username = row.username
           /\ ~EmailOfOther(users, id, row.email)
           /\ \A o \in DOMAIN users' :
                /\ users'[o].email = LowerTrim(users'[o].email)
                /\ ~EmailOfOther(users', o, users'[o].email)
    ]_vars

\* C26: when repository.save raises inside CreateUser, UpdateUser or
\* ChangePassword, the caller gets that exception, not a translated one,
\* nothing is published, and the table, the bus history and the handler
\* invocations are as before the call.
C26_SaveFailurePropagates ==
    [][/\ last'.op \in {"CreateUser", "UpdateUser", "ChangePassword"}
       /\ last'.saves = 1
       /\ last'.outcome # "returned"
       => /\ last'.outcome \in {"DjangoValidationError", "DoesNotExist",
                                "AttributeError", "ValueError"}
          /\ last'.published = <<>>
          /\ last'.notified = <<>>
          /\ users' = users
          /\ events' = events
          /\ calls' = calls
    ]_vars

\* A CreateUser whose save was refused by the storage after the pre-flight
\* check had passed.
C26_Witness ==
    /\ last.op = "CreateUser"
    /\ last.saves = 1
    /\ last.outcome = "DjangoValidationError"
    /\ Len(events) = Cardinality(DOMAIN users)

\* C27: whenever validate_user_creation accepts a username and an email, the
\* User construction CreateUser performs next with the same two strings
\* succeeds.
C27_EntityAcceptsValidated ==
    [][last'.op = "CreateUser" =>
        LET accepted == validate_user_creation(users, last'.args.username,
                                               last'.args.email).kind = "ok"
        IN /\ last'.outcome # "ValueError"
           /\ accepted => User(NoneId, last'.args.username, last'.args.email,
                               None, None, TRUE, DefaultFlags,
                               last'.args.password).ok
           /\ accepted <=> last'.saves = 1
    ]_vars

\* A CreateUser with a username of two tokens that passed validation and
\* construction.
C27_Witness ==
    /\ last.op = "CreateUser"
    /\ last.outcome = "returned"
    /\ last.args.username = <<"c", " ", "d">>
    /\ last.dto.username = <<"c", " ", "d">>

\* C28: the bus history grows by exactly one UserCreated per CreateUser that
\* returns, carrying the id of the returned view and the username and email
\* as persisted, and by nothing for a CreateUser that fails; so the history
\* lists the successful creations in order.
C28_EventsMatchCreations ==
    [][last'.op = "CreateUser" =>
        IF last'.outcome = "returned"
        THEN LET id == last'.dto.id
             IN /\ id \in DOMAIN users' \ DOMAIN users
                /\ events' = Append(events,
                                    [type |-> "UserCreatedEvent", aggregate_id |-> id,
                                     username |-> users'[id].username,
                                     email |-> users'[id].email,
                                     user_id |-> NoneId, updated_fields |-> <<>>])
                /\ \A i \in 1..Len(events') :
                    /\ events'[i].type = "UserCreatedEvent"
                    /\ events'[i].aggregate_id = i
        ELSE events' = events
    ]_vars

\* Two successful creations, the second with an email given in upper case
\* and followed by a newline, each with its event.
C28_Witness ==
    /\ last.op = "CreateUser"
    /\ last.outcome = "returned"
    /\ last.args.email = E_Upper_Newline
    /\ Len(events) = 2
    /\ events[2].email = E_Canonical
    /\ events[2].aggregate_id = last.dto.id

\* C23: Email canonicalizes at construction: whenever the trimmed string has
\* the shape of an address, Email(s) is built and its value is s lower-cased
\* and trimmed; constructing an Email again from a built value gives the
\* same Email.  Emails compare and hash by value, so strings that differ
\* only in case or surrounding whitespace then give equal Emails.
C23_EmailCanonicalizes ==
    last.op = "Email" =>
        /\ EmailFull(str_strip(last.args.email)) =>
            /\ last.outcome = "returned"
            /\ last.dto.email = LowerTrim(last.args.email)
            /\ Email(LowerTrim(last.args.email)) = Built(last.dto.email)
        /\ last.outcome = "returned" =>
            Email(last.dto.email) = Built(last.dto.email)

\* The calls of two threads ask for the same username or the same email.
SameIdentity(a, b) ==
    \/ threads[a].args.username = threads[b].args.username
    \/ LowerTrim(threads[a].args.email) = LowerTrim(threads[b].args.email)

\* C24: with concurrent CreateUser calls and a storage that enforces the
\* unique constraints atomically in save, of the calls asking for the same
\* username or email at most one gets past save; persisted users never share
\* a username or a lower-cased email; the history holds exactly one
\* UserCreated per call that returned, for the row that call saved; a call
\* that fails has published nothing, and when it fails after a passed
\* pre-flight check the failure is the one save raised.
C24_OneWinner ==
    LET started == {t \in Threads : threads[t].pc # "idle"}
        won == {t \in started : threads[t].pc \in {"saved", "returned"}}
        returned == {t \in started : threads[t].pc = "returned"}
    IN /\ \A a \in won : \A b \in won \ {a} : ~SameIdentity(a, b)
       /\ \A i \in DOMAIN users : \A j \in DOMAIN users \ {i} :
            /\ users[i].username # users[j].username
            /\ str_lower(users[i].email) # str_lower(users[j].email)
       /\ Len(events) = Cardinality(returned)
       /\ \A t \in returned : \E i \in 1..Len(events) :
            /\ events[i].aggregate_id = threads[t].saved.id
            /\ events[i].username = users[threads[t].saved.id].username
            /\ events[i].email = users[threads[t].saved.id].email
       /\ \A t \in started : threads[t].pc = "raised" =>
            /\ \A i \in 1..Len(events) : events[i].aggregate_id # threads[t].saved.id
            /\ threads[t].saves = 1 => threads[t].outcome = "DjangoValidationError"
       /\ Cardinality(DOMAIN users) = Cardinality(won)

\* Two calls for the same username both passed the pre-flight check; one
\* saved, published and returned, the other got the storage's error from save.
C24_Witness ==
    \E a \in Threads : \E b \in Threads \ {a} :
        /\ threads[a].pc = "returned"
        /\ threads[b].pc = "raised"
        /\ threads[b].saves = 1
        /\ threads[a].args.username = threads[b].args.username
        /\ threads[a].args.email = threads[b].args.email
        /\ Len(events) = 1

\* The handler calls of one publish when every nested publish is delivered
\* inside the call of the handler that made it.
RECURSIVE InBandCalls(_, _)
InBandCalls(handlers, event) ==
    IF handlers = <<>> THEN <<>>
    ELSE <<Head(handlers)>>
         \o (IF handler_publishes(Head(handlers), event) = <<>> THEN <<>>
             ELSE notified(subscribers_by_type, all_subscribers,
                           handler_publishes(Head(handlers), event)[1]))
         \o InBandCalls(Tail(handlers), event)

\* The events the handlers of one publish published themselves, in order.
RECURSIVE NestedEvents(_, _)
NestedEvents(handlers, event) ==
    IF handlers = <<>> THEN <<>>
    ELSE handler_publishes(Head(handlers), event)
         \o NestedEvents(Tail(handlers), event)

\* C29: delivery is synchronous and in-band also when a handler publishes:
\* publish returns only after every handler of its event has run; an event
\* a handler publishes is appended to the history after the outer event and
\* handed to all of its own handlers before the next handler of the outer
\* event runs; with handlers that return, every publish returns.
C29_NestedDeliveryInBand ==
    [][last'.op = "publish" =>
        LET outer == last'.published[1]
            handlers == notified(subscribers_by_type, all_subscribers, outer)
        IN /\ last'.outcome = "returned"
           /\ last'.published = <<outer>> \o NestedEvents(handlers, outer)
           /\ last'.notified = InBandCalls(handlers, outer)
           /\ events' = events \o last'.published
           /\ calls' = calls \o last'.notified
    ]_vars

\* A UserCreatedEvent went first to republishing_handler, whose
\* UserUpdatedEvent reached handle_user_updated before the second handler of
\* the outer event ran.
C29_Witness ==
    /\ last.op = "publish"
    /\ last.args.event_type = "UserCreatedEvent"
    /\ Len(last.published) = 2
    /\ last.published[2].type = "UserUpdatedEvent"
    /\ last.notified = <<"republishing_handler", "handle_user_updated",
                         "handle_user_created">>
    /\ events = last.published

\* C30: get_events returns the published events in publish order as a copy:
\* emptying the returned list leaves the history as it is.  clear_events
\* empties the history and nothing else: the subscriber registrations stay,
\* so a publish after it calls the handlers the registrations give, in
\* their order, as before.
C30_HistoryCopyAndClear ==
    [][/\ last'.op = "get_events" =>
            /\ response'.items = events
            /\ events' = events
       /\ last'.op = "change_returned" =>
            /\ response'.items # response.items
            /\ events' = events
       /\ last'.op = "clear_events" =>
            /\ events' = <<>>
            /\ subscribers_by_type' = subscribers_by_type
            /\ all_subscribers' = all_subscribers
            /\ calls' = calls
       /\ last'.op = "publish" =>
            /\ events' = events \o last'.published
            /\ last'.notified =
                 InBandCalls(notified(subscribe_each(EmptyBus, registrations).by_type,
                                      subscribe_each(EmptyBus, registrations).all,
                                      last'.published[1]),
                             last'.published[1])
    ]_vars

\* The caller emptied a returned list of two events and the history still
\* holds both, in publish order.
C30_Witness ==
    /\ last.op = "change_returned"
    /\ response.items = <<>>
    /\ Len(events) = 2
    /\ events[1].type = "UserUpdatedEvent"
    /\ events[2].type = "UserCreatedEvent"
    /\ Len(calls) >= 2

====
